---- MODULE Spec2Model ----
(***************************************************************************)
(* PDFPulse: client-side PDF -> image conversion session.                  *)
(*                                                                         *)
(* The model follows src/services/pdfProcessor.ts (getPDFMetadata,         *)
(* convertPageToImage and the App component with its handlers) and         *)
(* src/unnamed/part_000 (analyzePDFContent, extractTextFromFirstPage).     *)
(*                                                                         *)
(* React state is the session state.  Every `await` of a handler is a      *)
(* suspension point: the handler's code up to its next await is one        *)
(* action, and the completion of the awaited promise starts the next one.  *)
(* Handlers that are suspended keep the values they closed over (file,     *)
(* metadata.totalPages, settings), which is why a run record carries its   *)
(* own copies.                                                             *)
(*                                                                         *)
(* Encodings: a scale s is held as the integer 2*s (the slider moves in    *)
(* steps of 0.5), a quality q as 100*q, an intrinsic page size in          *)
(* hundredths of a point.  The image id `p-<page>-<Date.now()>` is a React *)
(* key only and is left out of the image records.  The header's Reset      *)
(* button reloads the page, which ends the program; it is not a step of    *)
(* the session.                                                            *)
(***************************************************************************)
EXTENDS Integers, Sequences, FiniteSets, Bags, TLC

VARIABLES
    file,         \* useState<File | null>
    metadata,     \* useState<PDFMetadata | null>
    settings,     \* useState<ConversionSettings>
    images,       \* useState<ConvertedImage[]>
    isProcessing, \* useState(false)
    progress,     \* useState(0)
    aiInsights,   \* useState<AIInsights | null>
    isAnalyzing,  \* useState(false)
    loads,        \* the suspended handleFileUpload invocations (a bag)
    runs,         \* the suspended convertAllPages invocations, oldest first
    finished,     \* output: the record of the run that left its loop in this step, if any
    download      \* output: the file this step handed to the browser, if any

vars == <<file, metadata, settings, images, isProcessing, progress,
          aiInsights, isAnalyzing, loads, runs, finished, download>>

-----------------------------------------------------------------------------
(* Bounds of the model *)

\* pages of the largest document
MaxPages == 3
\* handleFileUpload invocations suspended at the same time
MaxLoads == 2
\* convertAllPages invocations suspended at the same time
MaxRuns == 2

-----------------------------------------------------------------------------
(* Values *)

\* JavaScript null
Null == [null |-> TRUE]

\* The documents the user can pick.  1: the largest document, 2: a one-page
\* document.  Reading a file can fail at any time (file.arrayBuffer() or
\* pdfjsLib.getDocument rejects), which is how an unreadable or invalid file
\* shows.
FileIds == {1, 2}

\* File.name as a sequence of characters: a.pdf and B.PDF (the extension in
\* upper case, as Windows tools write it)
FileName(f) ==
    IF f = 1 THEN <<"a", ".", "p", "d", "f">> ELSE <<"B", ".", "P", "D", "F">>

\* pdf.numPages
NumPages(f) == IF f = 1 THEN MaxPages ELSE 1

\* intrinsic page size (viewport at scale 1) in hundredths of a point:
\* document 1 is A4 (595.28 x 841.89), document 2 is Letter (612 x 792)
PageWidth(f, p) == IF f = 1 THEN 59528 ELSE 61200
PageHeight(f, p) == IF f = 1 THEN 84189 ELSE 79200

\* a File object: its bytes are identified by the document id
FileOf(f) == [name |-> FileName(f), size |-> 1000 * f,
              type |-> "application/pdf", bytes |-> f]

\* the values the settings controls offer in the model: scale 1, 1.5, 2
\* (times 2) and quality 0.5 and the default 0.92 (times 100)
Formats == {"png", "jpeg"}
Scales == {2, 3, 4}
Qualities == {50, 92}

DefaultSettings == [format |-> "png", scale |-> 4, quality |-> 92]

-----------------------------------------------------------------------------
(* getPDFMetadata *)

getPDFMetadata(f) ==
    [name |-> f.name, size |-> f.size, totalPages |-> NumPages(f.bytes)]

-----------------------------------------------------------------------------
(* convertPageToImage *)

\* canvas.width = viewport.width: the page's intrinsic size times the scale,
\* truncated to an integer by the canvas
CanvasDim(intrinsic, scale) == (intrinsic * scale) \div 200

\* what the canvas encoders produce: for image/png the quality is ignored
Encode(f, pageNumber, s) ==
    [bytes |-> f.bytes, page |-> pageNumber, scale |-> s.scale,
     quality |-> IF s.format = "jpeg" THEN s.quality ELSE 0]

MimeType(s) == "image/" \o s.format

\* whether pdf.getPage(pageNumber) can resolve for this file
PageExists(f, pageNumber) ==
    pageNumber >= 1 /\ pageNumber <= NumPages(f.bytes)

convertPageToImage(f, pageNumber, s) ==
    [pageNumber |-> pageNumber,
     dataUrl |-> [mime |-> MimeType(s), data |-> Encode(f, pageNumber, s)],
     blob |-> [type |-> MimeType(s), data |-> Encode(f, pageNumber, s)],
     width |-> CanvasDim(PageWidth(f.bytes, pageNumber), s.scale),
     height |-> CanvasDim(PageHeight(f.bytes, pageNumber), s.scale)]

\* Math.round(num / den) for num >= 0, den > 0
MathRound(num, den) == (2 * num + den) \div (2 * den)

-----------------------------------------------------------------------------
(* analyzePDFContent *)

\* response texts the remote service may return
FullText == "{\"summary\":\"S\",\"keywords\":[\"k\"],\"suggestedFileName\":\"quarterly_report\"}"
PartialText == "{\"summary\":\"S\"}"
NullText == "null"
CutText == "{\"summary\":"

\* how ai.models.generateContent settles: it rejects (transport, auth), or
\* resolves with a response whose text is absent or one of the texts above
RemoteOutcomes ==
    {[kind |-> "reject"], [kind |-> "notext"]} \cup
    {[kind |-> "text", text |-> t] : t \in {FullText, PartialText, NullText, CutText, ""}}

\* JSON.parse on the texts above: the value, or a SyntaxError
JSONParse(t) ==
    CASE t = FullText ->
           [ok |-> TRUE,
            value |-> [summary |-> "S", keywords |-> <<"k">>,
                       suggestedFileName |-> "quarterly_report"]]
      [] t = PartialText -> [ok |-> TRUE, value |-> [summary |-> "S"]]
      [] t = NullText -> [ok |-> TRUE, value |-> Null]
      [] OTHER -> [ok |-> FALSE]

FallbackInsights ==
    [summary |-> "Could not analyze document content.",
     keywords |-> <<>>,
     suggestedFileName |-> "document_export"]

\* a settled promise
Resolved(v) == [settled |-> "resolved", value |-> v]
Rejected == [settled |-> "rejected"]

\* analyzePDFContent with the try/catch around the request only: a response
\* whose text does not parse rejects
analyzePDFContent_ParseOutsideTry(outcome) ==
    IF outcome.kind = "text"
    THEN IF JSONParse(outcome.text).ok
         THEN Resolved(JSONParse(outcome.text).value)
         ELSE Rejected
    ELSE Resolved(FallbackInsights)

\* try { response = await generateContent(..); return JSON.parse(response.text) }
\* catch { return the fallback }; JSON.parse(undefined) throws as well
analyzePDFContent(outcome) ==
    IF outcome.kind = "text" /\ JSONParse(outcome.text).ok
    THEN Resolved(JSONParse(outcome.text).value)
    ELSE Resolved(FallbackInsights)

-----------------------------------------------------------------------------
Init ==
    /\ file = Null
    /\ metadata = Null
    /\ settings = DefaultSettings
    /\ images = <<>>
    /\ isProcessing = FALSE
    /\ progress = 0
    /\ aiInsights = Null
    /\ isAnalyzing = FALSE
    /\ loads = EmptyBag
    /\ runs = <<>>
    /\ finished = Null
    /\ download = Null

-----------------------------------------------------------------------------
(* handleFileUpload *)

\* the sequence without its k-th element
Remove(seq, k) == SubSeq(seq, 1, k - 1) \o SubSeq(seq, k + 1, Len(seq))

\* the suspended invocations after invocation l went on to its next await
Resume(l, pc) == (loads (-) SetToBag({l})) (+) SetToBag({[l EXCEPT !.pc = pc]})

\* the suspended invocations after invocation l returned
Return(l) == loads (-) SetToBag({l})

\* The file input exists only in the landing view (!file).  Up to the first
\* await: setFile, setImages([]), setAiInsights(null), setProgress(0).
handleFileUpload(f) ==
    /\ file = Null
    /\ BagCardinality(loads) < MaxLoads
    /\ FileOf(f).type = "application/pdf"
    /\ file' = FileOf(f)
    /\ images' = <<>>
    /\ aiInsights' = Null
    /\ progress' = 0
    /\ loads' = loads (+) SetToBag({[file |-> FileOf(f), pc |-> "metadata"]})
    /\ download' = Null
    /\ finished' = Null
    /\ UNCHANGED <<metadata, settings, isProcessing, isAnalyzing, runs>>

\* getPDFMetadata resolved: setMetadata(meta), setIsAnalyzing(true)
MetadataLoaded(l) ==
    /\ BagIn(l, loads)
    /\ l.pc = "metadata"
    /\ metadata' = getPDFMetadata(l.file)
    /\ isAnalyzing' = TRUE
    /\ loads' = Resume(l, "text")
    /\ download' = Null
    /\ finished' = Null
    /\ UNCHANGED <<file, settings, images, isProcessing, progress, aiInsights,
                   runs>>

\* getPDFMetadata rejected (the file is unreadable or no PDF): the catch logs
\* to the console and sets nothing
MetadataFailed(l) ==
    /\ BagIn(l, loads)
    /\ l.pc = "metadata"
    /\ loads' = Return(l)
    /\ download' = Null
    /\ finished' = Null
    /\ UNCHANGED <<file, metadata, settings, images, isProcessing, progress,
                   aiInsights, isAnalyzing, runs>>

\* extractTextFromFirstPage resolved: analyzePDFContent(text) is called
TextExtracted(l) ==
    /\ BagIn(l, loads)
    /\ l.pc = "text"
    /\ loads' = Resume(l, "analyze")
    /\ download' = Null
    /\ finished' = Null
    /\ UNCHANGED <<file, metadata, settings, images, isProcessing, progress,
                   aiInsights, isAnalyzing, runs>>

\* extractTextFromFirstPage rejected (getPage or getTextContent failed): the
\* same catch; isAnalyzing is left as it is
TextFailed(l) ==
    /\ BagIn(l, loads)
    /\ l.pc = "text"
    /\ loads' = Return(l)
    /\ download' = Null
    /\ finished' = Null
    /\ UNCHANGED <<file, metadata, settings, images, isProcessing, progress,
                   aiInsights, isAnalyzing, runs>>

\* analyzePDFContent settled: setAiInsights(insights), setIsAnalyzing(false);
\* a rejection would go to the catch
AnalysisSettled(l, outcome) ==
    /\ BagIn(l, loads)
    /\ l.pc = "analyze"
    /\ IF analyzePDFContent(outcome).settled = "resolved"
       THEN /\ aiInsights' = analyzePDFContent(outcome).value
            /\ isAnalyzing' = FALSE
       ELSE UNCHANGED <<aiInsights, isAnalyzing>>
    /\ loads' = Return(l)
    /\ download' = Null
    /\ finished' = Null
    /\ UNCHANGED <<file, metadata, settings, images, isProcessing, progress,
                   runs>>

-----------------------------------------------------------------------------
(* clearAll *)

\* a reset that also takes the session out of the processing state
clearAll_ResetsProcessing ==
    /\ file # Null
    /\ file' = Null
    /\ metadata' = Null
    /\ images' = <<>>
    /\ aiInsights' = Null
    /\ progress' = 0
    /\ isProcessing' = FALSE
    /\ download' = Null
    /\ finished' = Null
    /\ UNCHANGED <<settings, isAnalyzing, loads, runs>>

\* the trash button of the workspace view
clearAll ==
    /\ file # Null
    /\ file' = Null
    /\ metadata' = Null
    /\ images' = <<>>
    /\ aiInsights' = Null
    /\ progress' = 0
    /\ download' = Null
    /\ finished' = Null
    /\ UNCHANGED <<settings, isProcessing, isAnalyzing, loads, runs>>

-----------------------------------------------------------------------------
(* convertAllPages *)

\* a convert button that is also disabled while the analysis is shown as
\* running
CanConvert_NotWhileAnalyzing ==
    file # Null /\ ~isProcessing /\ metadata # Null /\ ~isAnalyzing

\* The convert button is in the workspace view and disabled while
\* isProcessing; `if (!file || !metadata) return`.
CanConvert == file # Null /\ ~isProcessing /\ metadata # Null

\* Up to the first await:
\* setIsProcessing(true), setImages([]); file, metadata.totalPages and
\* settings are the ones of the render in which the button was clicked
\* (every document has a page, so the loop is entered).  attempted and
\* failed record the calls to convertPageToImage so far.
convertAllPages ==
    /\ CanConvert
    /\ Len(runs) < MaxRuns
    /\ isProcessing' = TRUE
    /\ images' = <<>>
    /\ runs' = Append(runs,
                 [file |-> file, total |-> metadata.totalPages,
                  settings |-> settings, i |-> 1,
                  attempted |-> <<>>, failed |-> {}])
    /\ download' = Null
    /\ finished' = Null
    /\ UNCHANGED <<file, metadata, settings, progress, aiInsights,
                   isAnalyzing, loads>>

\* the settings state as it is when the page is converted
RunSettings_Live(r) == settings

\* the settings convertPageToImage is called with: the closure's
RunSettings(r) == runs[r].settings

\* the run's record after iteration i of the loop
AfterPage(run, ok) ==
    [run EXCEPT !.i = run.i + 1,
                !.attempted = Append(run.attempted, run.i),
                !.failed = IF ok THEN run.failed ELSE run.failed \cup {run.i}]

\* the loop's condition `i <= total`
InLoop(run) == run.i <= run.total

\* after iteration i: the next await, or, past the last page,
\* setIsProcessing(false) with no await in between
LoopStep(r, ok) ==
    IF InLoop(AfterPage(runs[r], ok))
    THEN /\ runs' = [runs EXCEPT ![r] = AfterPage(runs[r], ok)]
         /\ UNCHANGED isProcessing
         /\ finished' = Null
    ELSE /\ runs' = Remove(runs, r)
         /\ isProcessing' = FALSE
         /\ finished' = AfterPage(runs[r], ok)

\* the progress published after page i of total was converted
ProgressAfter(i, total) == MathRound(i * 100, total)

\* a run that publishes the new image in front: setImages(prev => [img, ...prev])
PageConverted_Prepend(r) ==
    /\ PageExists(runs[r].file, runs[r].i)
    /\ images' = <<convertPageToImage(runs[r].file, runs[r].i, RunSettings(r))>>
                   \o images
    /\ progress' = ProgressAfter(runs[r].i, runs[r].total)
    /\ LoopStep(r, TRUE)
    /\ download' = Null
    /\ UNCHANGED <<file, metadata, settings, aiInsights, isAnalyzing, loads>>

\* convertPageToImage(file, i, settings) resolved: results.push(img),
\* setImages(prev => [...prev, img]), setProgress(round(i / total * 100))
PageConverted(r) ==
    /\ PageExists(runs[r].file, runs[r].i)
    /\ images' = Append(images,
                   convertPageToImage(runs[r].file, runs[r].i, RunSettings(r)))
    /\ progress' = ProgressAfter(runs[r].i, runs[r].total)
    /\ LoopStep(r, TRUE)
    /\ download' = Null
    /\ UNCHANGED <<file, metadata, settings, aiInsights, isAnalyzing, loads>>

\* a loop without the try/catch: the rejection leaves convertAllPages, and
\* setIsProcessing(false) is not reached
PageFailed_Uncaught(r) ==
    /\ runs' = Remove(runs, r)
    /\ finished' = Null
    /\ download' = Null
    /\ UNCHANGED <<file, metadata, settings, images, isProcessing, progress,
                   aiInsights, isAnalyzing, loads>>

\* convertPageToImage rejected (no such page, no 2d context, a render
\* error): the catch logs to the console and the loop goes on
PageFailed(r) ==
    /\ LoopStep(r, FALSE)
    /\ download' = Null
    /\ UNCHANGED <<file, metadata, settings, images, progress, aiInsights,
                   isAnalyzing, loads>>

-----------------------------------------------------------------------------
(* settings controls (workspace view) *)

SetFormat(fmt) ==
    /\ file # Null
    /\ fmt # settings.format
    /\ settings' = [settings EXCEPT !.format = fmt]
    /\ download' = Null
    /\ finished' = Null
    /\ UNCHANGED <<file, metadata, images, isProcessing, progress, aiInsights,
                   isAnalyzing, loads, runs>>

SetScale(sc) ==
    /\ file # Null
    /\ sc # settings.scale
    /\ settings' = [settings EXCEPT !.scale = sc]
    /\ download' = Null
    /\ finished' = Null
    /\ UNCHANGED <<file, metadata, images, isProcessing, progress, aiInsights,
                   isAnalyzing, loads, runs>>

\* the quality slider is shown for jpeg only
SetQuality(q) ==
    /\ file # Null
    /\ settings.format = "jpeg"
    /\ q # settings.quality
    /\ settings' = [settings EXCEPT !.quality = q]
    /\ download' = Null
    /\ finished' = Null
    /\ UNCHANGED <<file, metadata, images, isProcessing, progress, aiInsights,
                   isAnalyzing, loads, runs>>

-----------------------------------------------------------------------------
(* downloads *)

\* a name held as a sequence of characters, as a string
RECURSIVE Join(_)
Join(chars) == IF chars = <<>> THEN "" ELSE Head(chars) \o Join(Tail(chars))

\* String.prototype.replace(pattern, replacement) with a string pattern: the
\* first occurrence only
ReplaceFirst(chars, pat, rep) ==
    LET hits == {k \in 1..(Len(chars) - Len(pat) + 1) :
                   SubSeq(chars, k, k + Len(pat) - 1) = pat}
    IN  IF hits = {} THEN chars
        ELSE LET k == CHOOSE h \in hits : \A g \in hits : h <= g
             IN  SubSeq(chars, 1, k - 1) \o rep \o
                 SubSeq(chars, k + Len(pat), Len(chars))

\* aiInsights?.suggestedFileName || metadata?.name.replace('.pdf', '') || 'pdf_export'
folderName ==
    IF /\ aiInsights # Null
       /\ "suggestedFileName" \in DOMAIN aiInsights
       /\ aiInsights.suggestedFileName # ""
    THEN aiInsights.suggestedFileName
    ELSE IF /\ metadata # Null
            /\ ReplaceFirst(metadata.name, <<".", "p", "d", "f">>, <<>>) # <<>>
         THEN Join(ReplaceFirst(metadata.name, <<".", "p", "d", "f">>, <<>>))
         ELSE "pdf_export"

\* an entry name without the page number
ZipEntryName_NoPageNumber(img) ==
    folderName \o "_page." \o settings.format

\* `${folderName}_page_${img.pageNumber}.${settings.format}` in downloadAllAsZip
ZipEntryName(img) ==
    folderName \o "_page_" \o ToString(img.pageNumber) \o "." \o settings.format

\* the same template in downloadSingle
SingleFileName(img) ==
    folderName \o "_page_" \o ToString(img.pageNumber) \o "." \o settings.format

\* JSZip.file(name, data): an entry of the same name is replaced
ZipFile(zip, name, data) ==
    {e \in zip : e.name # name} \cup {[name |-> name, data |-> data]}

\* images.forEach(img => zip.file(name, img.blob))
RECURSIVE ZipAll(_, _)
ZipAll(zip, imgs) ==
    IF imgs = <<>> THEN zip
    ELSE ZipAll(ZipFile(zip, ZipEntryName(Head(imgs)), Head(imgs).blob), Tail(imgs))

\* a bulk export without `if (images.length === 0) return` that is offered
\* whenever the workspace is shown
downloadAllAsZip_NoEmptyCheck ==
    /\ file # Null
    /\ download' = [kind |-> "zip", name |-> folderName \o ".zip",
                    entries |-> ZipAll({}, images)]
    /\ finished' = Null
    /\ UNCHANGED <<file, metadata, settings, images, isProcessing, progress,
                   aiInsights, isAnalyzing, loads, runs>>

\* The download panel is rendered when images.length > 0, in the workspace
\* view; `if (images.length === 0) return`.  The entries are added before
\* the handler's only await (zip.generateAsync), after which nothing of the
\* state is read: the archive is the one of the click.
downloadAllAsZip ==
    /\ file # Null
    /\ Len(images) # 0
    /\ download' = [kind |-> "zip", name |-> folderName \o ".zip",
                    entries |-> ZipAll({}, images)]
    /\ finished' = Null
    /\ UNCHANGED <<file, metadata, settings, images, isProcessing, progress,
                   aiInsights, isAnalyzing, loads, runs>>

\* the download button of one preview card
downloadSingle(k) ==
    /\ file # Null
    /\ k \in 1..Len(images)
    /\ download' = [kind |-> "single", name |-> SingleFileName(images[k]),
                    href |-> images[k].dataUrl]
    /\ finished' = Null
    /\ UNCHANGED <<file, metadata, settings, images, isProcessing, progress,
                   aiInsights, isAnalyzing, loads, runs>>

-----------------------------------------------------------------------------
(* Specifications *)

\* the steps of the load, insight and conversion pipelines
Pipeline ==
    \/ \E f \in FileIds : handleFileUpload(f)
    \/ \E l \in BagToSet(loads) : MetadataLoaded(l)
    \/ \E l \in BagToSet(loads) : MetadataFailed(l)
    \/ \E l \in BagToSet(loads) : TextExtracted(l)
    \/ \E l \in BagToSet(loads) : TextFailed(l)
    \/ \E l \in BagToSet(loads), o \in RemoteOutcomes : AnalysisSettled(l, o)
    \/ convertAllPages
    \/ \E r \in DOMAIN runs : PageConverted(r)
    \/ \E r \in DOMAIN runs : PageFailed(r)

Downloads ==
    \/ downloadAllAsZip
    \/ \E k \in 1..MaxPages : downloadSingle(k)

Controls ==
    \/ \E fmt \in Formats : SetFormat(fmt)
    \/ \E sc \in Scales : SetScale(sc)
    \/ \E q \in Qualities : SetQuality(q)

\* The session with the settings left at their defaults: any interleaving of
\* file selections, clearAll, conversion runs and the completions of
\* everything that is suspended.
Next == Pipeline \/ clearAll

Spec == Init /\ [][Next]_vars

\* Every call of convertPageToImage settles: the browser resolves or rejects
\* each render promise.
FairSpec ==
    Spec /\ WF_vars(\E r \in DOMAIN runs : PageConverted(r) \/ PageFailed(r))

\* The workspace of one document (no clearAll), with the settings controls
\* and the downloads.
WorkspaceNext == Pipeline \/ Controls \/ Downloads

WorkspaceSpec == Init /\ [][WorkspaceNext]_vars

-----------------------------------------------------------------------------
(* Properties *)

\* the page numbers of the published images
ImagePages == {images[k].pageNumber : k \in 1..Len(images)}

\* C1: while a document is loaded, every entry of images was rendered from
\* the bytes of the session's current file: no image of a run that was
\* started for a previously loaded document appears.
C1_NoStaleImages ==
    file # Null =>
        \A k \in 1..Len(images) : images[k].blob.data.bytes = file.bytes

\* C2: a run over a document with N >= 1 pages has called convertPageToImage
\* exactly N times when it ends, for the pages 1, 2, .., N in this order,
\* whichever of the calls failed.
C2_AttemptsEveryPageOnce ==
    finished # Null =>
        finished.attempted = [p \in 1..NumPages(finished.file.bytes) |-> p]

\* C3: from the start of a run to its end the progress values never
\* decrease, and the value at the end of the run is 100.
C3_ProgressNonDecreasingTo100 ==
    [][runs # <<>> =>
         /\ progress' >= progress
         /\ (finished' # Null => progress' = 100)]_vars

\* C4: when a run over N pages ends in which exactly one page k failed, the
\* images are N - 1, their page numbers are 1..N without k, and
\* isProcessing is false.
C4_OneFailedPage ==
    (finished # Null /\ Cardinality(finished.failed) = 1) =>
        /\ Len(images) = finished.total - 1
        /\ ImagePages = (1..finished.total) \ finished.failed
        /\ ~isProcessing

\* C5: analyzePDFContent always resolves: whenever the analysis of a load
\* settles, for every outcome of the remote call, aiInsights becomes the
\* parsed response if the response text parses and the fixed default
\* otherwise, and the analyzing flag is cleared.
C5_AnalysisAlwaysResolves ==
    [][\A l \in BagToSet(loads), o \in RemoteOutcomes :
          (loads' # loads /\ l.pc = "analyze" /\ AnalysisSettled(l, o)) =>
              /\ ~isAnalyzing'
              /\ aiInsights' =
                    IF o.kind = "text" /\ o.text \in {FullText, PartialText, NullText}
                    THEN JSONParse(o.text).value
                    ELSE [summary |-> "Could not analyze document content.",
                          keywords |-> <<>>,
                          suggestedFileName |-> "document_export"]]_vars

\* an analysis has settled with the fixed default
C5_Witness ==
    /\ aiInsights # Null
    /\ aiInsights.summary = "Could not analyze document content."
    /\ ~isAnalyzing

\* C6: the page numbers of the images are pairwise distinct and, while a
\* document's metadata is loaded, each lies in 1..metadata.totalPages.
C6_PageNumbersDistinctInRange ==
    /\ \A j, k \in 1..Len(images) :
           j # k => images[j].pageNumber # images[k].pageNumber
    /\ metadata # Null =>
           \A k \in 1..Len(images) :
               images[k].pageNumber \in 1..metadata.totalPages

\* the archive of images under the extension ext: one entry per image, named
\* <folderName>_page_<pageNumber>.<ext>, holding the image's bytes, the names
\* pairwise distinct
ArchiveNamed(ext) ==
    /\ Cardinality(download.entries) = Len(images)
    /\ Cardinality({e.name : e \in download.entries}) = Len(images)
    /\ \A k \in 1..Len(images) :
          [name |-> folderName \o "_page_" \o ToString(images[k].pageNumber)
                       \o "." \o ext,
           data |-> images[k].blob] \in download.entries
    /\ \A k \in 1..Len(images) :
          SingleFileName(images[k]) =
              folderName \o "_page_" \o ToString(images[k].pageNumber) \o "." \o ext

\* C7 as stated: the extension of a lossy (jpeg) archive is "jpg".
C7_ArchiveNamesJpg ==
    (download # Null /\ download.kind = "zip") =>
        ArchiveNamed(IF settings.format = "jpeg" THEN "jpg" ELSE "png")

\* C7 as amended: packaging N images with base name B gives exactly N
\* entries, the one of page p named B_page_p.<ext>, pairwise distinct, where
\* <ext> is the format setting itself, "jpeg" for lossy and "png" for
\* lossless; downloadSingle gives the same image the same name.
C7_ArchiveNames ==
    (download # Null /\ download.kind = "zip") =>
        ArchiveNamed(IF settings.format = "jpeg" THEN "jpeg" ELSE "png")

\* an archive of at least two jpeg-named images was produced
C7_Witness ==
    /\ download # Null
    /\ download.kind = "zip"
    /\ settings.format = "jpeg"
    /\ Len(images) >= 2

\* C8: a change of a setting leaves images (and the runs under way) as they
\* are, and the images of a run under way have the dimensions and bytes of
\* the scale that was set when the run was started.
C8_SettingsChangeKeepsImages ==
    /\ [][settings' # settings => images' = images /\ runs' = runs]_vars
    /\ [](\A r \in DOMAIN runs : \A k \in 1..Len(images) :
            LET img == images[k]
                f == runs[r].file.bytes
            IN  img.blob.data.bytes = f =>
                  /\ img.width = CanvasDim(PageWidth(f, img.pageNumber),
                                           runs[r].settings.scale)
                  /\ img.height = CanvasDim(PageHeight(f, img.pageNumber),
                                            runs[r].settings.scale)
                  /\ img.blob.data.scale = runs[r].settings.scale)

\* the scale was changed during a run that has already produced an image
C8_Witness ==
    \E r \in DOMAIN runs :
        /\ runs[r].settings.scale # settings.scale
        /\ Len(images) >= 1
        /\ runs[r].i > Len(images)

\* what the component renders from
View == <<file, metadata, settings, images, isProcessing, progress,
          aiInsights, isAnalyzing>>

\* C9: a failed load is surfaced: the session state after getPDFMetadata
\* rejected differs from the state while the load was still in progress.
C9_LoadFailureSurfaced ==
    [][\A l \in BagToSet(loads) : MetadataFailed(l) => View' # View]_vars

\* C10: the insight never blocks conversion: whenever a document and its
\* metadata are loaded and no run is under way, a run can be started, and
\* every run under way reaches its end, whatever becomes of the analysis.
C10_InsightNeverBlocksConversion ==
    /\ []((file # Null /\ metadata # Null /\ ~isProcessing /\ Len(runs) < MaxRuns)
            => ENABLED convertAllPages)
    /\ [](runs # <<>> => <>(finished # Null))

\* a run has ended while the analysis is still shown as running (pending, or
\* text extraction failed)
C10_Witness == finished # Null /\ isAnalyzing /\ aiInsights = Null

\* C11: while no file is selected (after clearAll, until the next file
\* selection) metadata and the insight are empty, images is empty and
\* progress is 0: nothing that was in flight writes into the cleared session.
C11_ResetStays ==
    file = Null =>
        /\ metadata = Null
        /\ aiInsights = Null
        /\ images = <<>>
        /\ progress = 0

\* C12: when a run in which every render succeeded ends, images holds
\* exactly one image per page of the run's document, the pages 1, 2, .., N
\* in this order, and the width and height of each are the page's intrinsic
\* width and height times the scale that was set when the run was started.
C12_AllPagesRendered ==
    (finished # Null /\ finished.failed = {}) =>
        LET f == finished.file.bytes
        IN  /\ Len(images) = NumPages(f)
            /\ \A k \in 1..Len(images) :
                  /\ images[k].pageNumber = k
                  /\ images[k].width * 200 =
                         PageWidth(f, k) * finished.settings.scale
                  /\ images[k].height * 200 =
                         PageHeight(f, k) * finished.settings.scale

\* a file name without its extension: what precedes the last dot
StripExtension(chars) ==
    LET dots == {k \in 1..Len(chars) : chars[k] = "."}
    IN  IF dots = {} THEN chars
        ELSE SubSeq(chars, 1, (CHOOSE d \in dots : \A e \in dots : e <= d) - 1)

\* the base name of an export as C13 states it
BaseNameStated ==
    IF /\ aiInsights # Null
       /\ "suggestedFileName" \in DOMAIN aiInsights
       /\ aiInsights.suggestedFileName # ""
    THEN aiInsights.suggestedFileName
    ELSE IF metadata # Null /\ StripExtension(metadata.name) # <<>>
         THEN Join(StripExtension(metadata.name))
         ELSE "pdf_export"

\* C13: the base name of every export, the archive of downloadAllAsZip and
\* the single image of downloadSingle alike, is the insight's suggested
\* file name when there is one, otherwise the document's name without its
\* extension, otherwise the fallback literal.
C13_BaseName ==
    download # Null =>
        IF download.kind = "zip"
        THEN /\ download.name = BaseNameStated \o ".zip"
             /\ \A e \in download.entries :
                   \E k \in 1..Len(images) :
                       e.name = BaseNameStated \o "_page_"
                                   \o ToString(images[k].pageNumber)
                                   \o "." \o settings.format
        ELSE \E k \in 1..Len(images) :
                 download.name = BaseNameStated \o "_page_"
                                    \o ToString(images[k].pageNumber)
                                    \o "." \o settings.format

\* C14: an archive is never produced from an empty image set: while images
\* is empty downloadAllAsZip does nothing (it is not offered, and a call
\* returns at once), and every archive that is produced holds one entry per
\* image of a non-empty images.
C14_NoEmptyArchive ==
    /\ [](images = <<>> => ~ENABLED downloadAllAsZip)
    /\ [][(download' # Null /\ download'.kind = "zip") =>
             /\ images # <<>>
             /\ download'.entries # {}
             /\ Cardinality(download'.entries) = Len(images)
             /\ View' = View]_vars

\* a run has ended without an image (every render failed): the workspace is
\* shown and there is nothing to export
C14_Witness == file # Null /\ finished # Null /\ images = <<>>

\* the pages a run has converted so far: the calls that did not fail
Completed(run) == Len(run.attempted) - Cardinality(run.failed)

\* C15: progress is an integer in 0..100 and, for the run under way (or the
\* one that has just ended), equals floor(completed / total * 100), completed
\* being the pages the run has converted so far.
C15_ProgressIsFloorOfCompleted ==
    /\ progress \in 0..100
    /\ \A r \in DOMAIN runs :
          progress = (Completed(runs[r]) * 100) \div runs[r].total
    /\ finished # Null =>
          progress = (Completed(finished) * 100) \div finished.total

\* C16: the start of a run resets images to empty and progress to 0, also
\* when an earlier run has left progress at another value.
C16_RunStartResets ==
    [][convertAllPages => (images' = <<>> /\ progress' = 0)]_vars

\* C17: when the attempt on page i of a run over N pages completes, by
\* success or by failure, progress becomes round(i / N * 100).
C17_ProgressAfterEveryAttempt ==
    [][\A r \in DOMAIN runs :
          (PageConverted(r) \/ PageFailed(r)) =>
              progress' = MathRound(runs[r].i * 100, runs[r].total)]_vars

\* C18: every run that was started reaches Done: given that each render
\* settles, the run ends after it has attempted all the pages of its loop,
\* with isProcessing false, however many of the renders succeeded.
C18_RunReachesDone ==
    (runs # <<>>) ~>
        (/\ finished # Null
         /\ finished.attempted = [p \in 1..finished.total |-> p]
         /\ ~isProcessing)

\* a run over the largest document has ended in which every render failed
C18_Witness ==
    /\ finished # Null
    /\ finished.total = MaxPages
    /\ finished.failed = 1..MaxPages
    /\ ~isProcessing

\* C19: images is at every point in strictly increasing page-number order,
\* an order-preserving subsequence of 1..N: of the pages 1..i-1 that the
\* run under way has attempted, of 1..N when the run has ended.
C19_ImagesInPageOrder ==
    /\ \A j, k \in 1..Len(images) :
          j < k => images[j].pageNumber < images[k].pageNumber
    /\ \A k \in 1..Len(images) : images[k].pageNumber >= 1
    /\ \A r \in DOMAIN runs :
          \A k \in 1..Len(images) : images[k].pageNumber < runs[r].i
    /\ finished # Null =>
          \A k \in 1..Len(images) : images[k].pageNumber <= finished.total

\* pages 1 and 3 are published, the render of page 2 having failed
C19_Witness ==
    /\ Len(images) = 2
    /\ images[1].pageNumber = 1
    /\ images[2].pageNumber = 3

\* C20: every call of convertPageToImage that a run makes passes a page
\* number p with 1 <= p <= the number of pages of the file it is called
\* with (runs[r].i is the argument of the call that is awaited).
C20_PageArgumentInRange ==
    \A r \in DOMAIN runs :
        /\ 1 <= runs[r].i
        /\ runs[r].i <= NumPages(runs[r].file.bytes)

\* C21: a step that sets metadata or aiInsights belongs to a load of the
\* session's current file: the completion of a load of another file (one
\* selected earlier, or one that was cleared) writes neither.
C21_NoStaleLoadResults ==
    [][\A l \in BagToSet(loads) :
          (/\ l.file # file
           /\ \/ MetadataLoaded(l)
              \/ \E o \in RemoteOutcomes : AnalysisSettled(l, o))
          => (metadata' = metadata /\ aiInsights' = aiInsights)]_vars

\* C22: the session never stays in the Analyzing state: whenever isAnalyzing
\* is true, a load is suspended in text extraction or analysis whose
\* completion is to clear the flag.
C22_AnalyzingHasPendingLoad ==
    isAnalyzing => \E l \in BagToSet(loads) : l.pc \in {"text", "analyze"}

\* C23: isProcessing is true exactly while a convertAllPages run is under
\* way, and at most one run is under way at any time, also when the session
\* is cleared and another file is loaded during the run.
C23_OneRunWhileProcessing ==
    /\ isProcessing <=> runs # <<>>
    /\ Len(runs) <= 1

\* a run is under way for a file that was cleared, and another file and
\* metadata are loaded: the convert button is shown, disabled
C23_Witness ==
    /\ file # Null
    /\ metadata # Null
    /\ isProcessing
    /\ \E r \in DOMAIN runs : runs[r].file # file

====
